---- MODULE Spec2Model ----
(***************************************************************************)
(* UnleashToggleProvider (src/src/index.ts): the provider's lifecycle      *)
(* (init / isEnabled / onChange / destroy, and the backend client's        *)
(* 'changed' event) and the recursive document filter syncOpenApiSpec.     *)
(***************************************************************************)
EXTENDS Integers, Sequences, FiniteSets, TLC

(***************************************************************************)
(* Bounds of the model.                                                    *)
(***************************************************************************)
\* documents given to syncOpenApiSpec have at most MaxNodes nodes
MaxNodes == 5
\* at most MaxClients calls of startUnleash in one behaviour
MaxClients == 2
\* at most MaxHandlers onChange registrations per backend client
MaxHandlers == 2

(***************************************************************************)
(* Document nodes.  Every node is a record of the same shape:              *)
(*   t  - "null" | "undefined" | "scalar" | "seq" | "map"                  *)
(*   s  - the value of a scalar (a string), "" otherwise                   *)
(*   ks - the keys of a Mapping in enumeration order, <<>> otherwise       *)
(*   vs - the values of a Mapping / the elements of a Sequence             *)
(***************************************************************************)
Null == [t |-> "null", s |-> "", ks |-> <<>>, vs |-> <<>>]

Undefined == [t |-> "undefined", s |-> "", ks |-> <<>>, vs |-> <<>>]

Str(x) == [t |-> "scalar", s |-> x, ks |-> <<>>, vs |-> <<>>]

Arr(items) == [t |-> "seq", s |-> "", ks |-> <<>>, vs |-> items]

Obj(keys, vals) == [t |-> "map", s |-> "", ks |-> keys, vs |-> vals]

FEATURE_TOGGLE_KEY == "x-feature-toggle"

\* feature names known to the documents and the backend
Features == {"f1", "f2"}

\* the keys of a Mapping other than the marker key
RegularKeys == {"a", "b"}

\* the terminal values of a document
Leaves == {Null, Undefined, Str("s")}

NoClient == 0

NotInitialized == "TogglesNotInitializedError"

TypeError == "TypeError"

(***************************************************************************)
(* The backend client's and the provider's synchronous query.             *)
(***************************************************************************)
\* Unleash.isEnabled: a read of the cached flag state; unknown = disabled
clientIsEnabled(fs, feature) == feature \in fs

\* isEnabled without its guard: no client answers "disabled"
isEnabledNoGuard(c, fs, feature) ==
    [st |-> "ok", val |-> c # NoClient /\ clientIsEnabled(fs, feature)]

\* UnleashToggleProvider.isEnabled on a provider holding client c whose
\* cached flag state is fs (the set of enabled features)
isEnabled(c, fs, feature) ==
    IF c = NoClient
    THEN [st |-> NotInitialized, val |-> FALSE]
    ELSE [st |-> "ok", val |-> clientIsEnabled(fs, feature)]

(***************************************************************************)
(* syncOpenApiSpec: the traversal.                                         *)
(***************************************************************************)
\* Object.keys(node) of a node that is neither null nor undefined
ObjectKeys(node) ==
    CASE node.t = "map" -> node.ks
      [] node.t = "seq" -> [i \in 1..Len(node.vs) |-> ToString(i - 1)]
      [] OTHER -> <<>>

\* Object.keys(val).includes(FEATURE_TOGGLE_KEY)
includesToggleKey(val) ==
    \E i \in 1..Len(ObjectKeys(val)) : ObjectKeys(val)[i] = FEATURE_TOGGLE_KEY

\* val[FEATURE_TOGGLE_KEY] of a Mapping that has the key
toggleOf(val) ==
    val.vs[CHOOSE i \in 1..Len(val.ks) : val.ks[i] = FEATURE_TOGGLE_KEY].s

\* a filter callback that keeps every element
keepMarkedAlways(enabled) == TRUE

\* a filter callback that keeps only Mappings
keepUnmarkedMappings(val) == val.t = "map"

\* the filter callback's answer for an element that has the marker key:
\* "return enabled"
keepMarked(enabled) == enabled

\* the filter callback's answer for every other element: "return true"
keepUnmarked(val) == TRUE

\* value.filter(...) of the array branch, elements i..Len(vals); acc holds the
\* elements kept and the isEnabled queries made so far
RECURSIVE filterArrayValues(_, _, _, _, _)
filterArrayValues(vals, i, c, fs, acc) ==
    IF i > Len(vals) THEN acc
    ELSE LET val == vals[i] IN
         IF val.t \notin {"null", "undefined"} /\ includesToggleKey(val)
         THEN LET r == isEnabled(c, fs, toggleOf(val))
                  q == Append(acc.q, toggleOf(val))
              IN IF r.st # "ok"
                 THEN [st |-> r.st, kept |-> <<>>, q |-> q]
                 ELSE filterArrayValues(vals, i + 1, c, fs,
                          [st |-> "ok",
                           kept |-> IF keepMarked(r.val) THEN Append(acc.kept, val)
                                                         ELSE acc.kept,
                           q |-> q])
         ELSE filterArrayValues(vals, i + 1, c, fs,
                  [acc EXCEPT !.kept = IF keepUnmarked(val) THEN Append(@, val) ELSE @])

\* a callback that empties the value of a disabled entry and keeps its key
disabledEntryEmptied(key, q) ==
    [st |-> "ok", keep |-> TRUE, key |-> key, val |-> Obj(<<>>, <<>>), q |-> q,
     sh |-> {}]

\* a final filter that also drops the entries whose value came out empty
entryLengthNonEmpty(e) == e.keep /\ ~(e.val.t \in {"seq", "map"} /\ e.val.vs = <<>>)

\* a traverse that catches the error and returns an empty Mapping
thrownCaught(st, q) == [st |-> "ok", val |-> Obj(<<>>, <<>>), q |-> q, sh |-> {}]

\* what the entry callback returns for a Mapping whose feature is disabled:
\* "return []", an entry of length 0
disabledEntry(key, q) ==
    [st |-> "ok", keep |-> FALSE, key |-> key, val |-> Undefined, q |-> q,
     sh |-> {}]

\* filteredEntries.filter((entry) => entry.length)
entryLength(e) == e.keep

\* an error thrown inside traverse leaves it: nothing catches it
thrown(st, q) == [st |-> st, val |-> Undefined, q |-> q, sh |-> {}]

RECURSIVE traverse(_, _, _)
RECURSIVE mapTraverse(_, _, _, _, _)
RECURSIVE entryCallback(_, _, _, _)
RECURSIVE mapEntries(_, _, _, _, _)

\* filteredArrayValues.map(traverse), elements i..Len(vals)
mapTraverse(vals, i, c, fs, acc) ==
    IF i > Len(vals) THEN acc
    ELSE LET r == traverse(vals[i], c, fs) IN
         IF r.st # "ok"
         THEN [st |-> r.st, out |-> <<>>, q |-> acc.q \o r.q, sh |-> {}]
         ELSE mapTraverse(vals, i + 1, c, fs,
                  [st |-> "ok", out |-> Append(acc.out, r.val), q |-> acc.q \o r.q,
                   sh |-> acc.sh \cup r.sh])

\* the callback of entries.map: keep says whether the entry returned is
\* [key, val] (TRUE) or [] (FALSE)
entryCallback(key, value, c, fs) ==
    IF value.t \in {"scalar", "undefined"}
    THEN [st |-> "ok", keep |-> TRUE, key |-> key, val |-> value, q |-> <<>>,
          sh |-> {value}]
    ELSE IF value.t = "seq"
    THEN LET f == filterArrayValues(value.vs, 1, c, fs,
                      [st |-> "ok", kept |-> <<>>, q |-> <<>>])
         IN IF f.st # "ok"
            THEN [st |-> f.st, keep |-> FALSE, key |-> key, val |-> Undefined,
                  q |-> f.q, sh |-> {}]
            ELSE LET m == mapTraverse(f.kept, 1, c, fs,
                              [st |-> "ok", out |-> <<>>, q |-> f.q, sh |-> {}])
                 IN IF m.st # "ok"
                    THEN [st |-> m.st, keep |-> FALSE, key |-> key,
                          val |-> Undefined, q |-> m.q, sh |-> {}]
                    ELSE [st |-> "ok", keep |-> TRUE, key |-> key,
                          val |-> Arr(m.out), q |-> m.q, sh |-> m.sh]
    ELSE IF value.t = "null"
    THEN \* Object.keys(null) throws
         [st |-> TypeError, keep |-> FALSE, key |-> key, val |-> Undefined, q |-> <<>>,
          sh |-> {}]
    ELSE LET has == includesToggleKey(value)
             r == IF has THEN isEnabled(c, fs, toggleOf(value))
                         ELSE [st |-> "ok", val |-> TRUE]
             q == IF has THEN <<toggleOf(value)>> ELSE <<>>
         IN IF r.st # "ok"
            THEN [st |-> r.st, keep |-> FALSE, key |-> key, val |-> Undefined, q |-> q,
                  sh |-> {}]
            ELSE IF ~r.val
            THEN disabledEntry(key, q)
            ELSE LET t == traverse(value, c, fs) IN
                 IF t.st # "ok"
                 THEN [st |-> t.st, keep |-> FALSE, key |-> key,
                       val |-> Undefined, q |-> q \o t.q, sh |-> {}]
                 ELSE [st |-> "ok", keep |-> TRUE, key |-> key,
                       val |-> t.val, q |-> q \o t.q, sh |-> t.sh]

RECURSIVE mapEntriesReversed(_, _, _, _, _)

\* entries collected in front of the ones before them: the output in
\* reverse order
mapEntriesReversed(keys, vals, i, cf, acc) ==
    IF i > Len(keys) THEN acc
    ELSE LET e == entryCallback(keys[i], vals[i], cf[1], cf[2]) IN
         IF e.st # "ok"
         THEN [st |-> e.st, ks |-> <<>>, vs |-> <<>>, q |-> acc.q \o e.q, sh |-> {}]
         ELSE mapEntriesReversed(keys, vals, i + 1, cf,
                  [st |-> "ok",
                   ks |-> IF entryLength(e) THEN <<e.key>> \o acc.ks ELSE acc.ks,
                   vs |-> IF entryLength(e) THEN <<e.val>> \o acc.vs ELSE acc.vs,
                   q |-> acc.q \o e.q,
                   sh |-> IF entryLength(e) THEN acc.sh \cup e.sh ELSE acc.sh])

\* entries.map(callback) followed by .filter(entry => entry.length),
\* entries i..Len(keys); cf is <<the client held, its cached flag state>>
mapEntries(keys, vals, i, cf, acc) ==
    IF i > Len(keys) THEN acc
    ELSE LET e == entryCallback(keys[i], vals[i], cf[1], cf[2]) IN
         IF e.st # "ok"
         THEN [st |-> e.st, ks |-> <<>>, vs |-> <<>>, q |-> acc.q \o e.q, sh |-> {}]
         ELSE mapEntries(keys, vals, i + 1, cf,
                  [st |-> "ok",
                   ks |-> IF entryLength(e) THEN Append(acc.ks, e.key) ELSE acc.ks,
                   vs |-> IF entryLength(e) THEN Append(acc.vs, e.val) ELSE acc.vs,
                   q |-> acc.q \o e.q,
                   sh |-> IF entryLength(e) THEN acc.sh \cup e.sh ELSE acc.sh])

\* traverse(node) with the provider holding client c and flag state fs:
\* st is "ok" or the error thrown, val the node returned, q the features
\* isEnabled was called with, in call order, and sh the nodes of the input
\* that the value returned holds as they are (the same value or reference,
\* "return node" and "return [key, value]") instead of a newly built
\* object or array
traverse(node, c, fs) ==
    IF node.t \in {"scalar", "null", "undefined"}
    THEN [st |-> "ok", val |-> node, q |-> <<>>, sh |-> {node}]
    ELSE LET m == mapEntries(ObjectKeys(node), node.vs, 1, <<c, fs>>,
                      [st |-> "ok", ks |-> <<>>, vs |-> <<>>, q |-> <<>>, sh |-> {}])
         IN IF m.st # "ok"
            THEN thrown(m.st, m.q)
            ELSE [st |-> "ok", val |-> Obj(m.ks, m.vs), q |-> m.q, sh |-> m.sh]

(***************************************************************************)
(* The documents the filter is applied to: every document of at most       *)
(* MaxNodes nodes over Leaves, RegularKeys and marker entries naming a     *)
(* feature of Features.                                                    *)
(***************************************************************************)
\* the sequences of j distinct regular keys
KeySeqs(j) ==
    {ks \in [1..j -> RegularKeys] : \A x, y \in 1..j : x # y => ks[x] # ks[y]}

\* sequence s with element e inserted at position p
InsertAt(s, p, e) == SubSeq(s, 1, p - 1) \o <<e>> \o SubSeq(s, p, Len(s))

RECURSIVE ListsOfSize(_, _, _)
RECURSIVE ListsFrom(_, _, _, _)

\* the sequences of j documents with m nodes in total; tab[k] is the set of
\* the documents of exactly k nodes
ListsOfSize(tab, j, m) ==
    IF j = 0 THEN (IF m = 0 THEN {<<>>} ELSE {})
    ELSE ListsFrom(tab, j, m, 1)

\* those of them whose first document has at least k nodes
ListsFrom(tab, j, m, k) ==
    IF k > m - (j - 1) THEN {}
    ELSE {<<d>> \o l : d \in tab[k], l \in ListsOfSize(tab, j - 1, m - k)}
         \cup ListsFrom(tab, j, m, k + 1)

RECURSIVE ArrsOfSize(_, _, _)

\* the Sequences of n nodes with at least j elements
ArrsOfSize(tab, n, j) ==
    IF j > n - 1 THEN {}
    ELSE {Arr(l) : l \in ListsOfSize(tab, j, n - 1)} \cup ArrsOfSize(tab, n, j + 1)

RECURSIVE ObjsOfSize(_, _, _)

\* the Mappings of n nodes without a marker entry and at least j entries
ObjsOfSize(tab, n, j) ==
    IF j > Cardinality(RegularKeys) THEN {}
    ELSE {Obj(ks, l) : ks \in KeySeqs(j), l \in ListsOfSize(tab, j, n - 1)}
         \cup ObjsOfSize(tab, n, j + 1)

RECURSIVE MarkedOfSize(_, _, _)

\* the Mappings of n nodes with a marker entry and at least j other entries
MarkedOfSize(tab, n, j) ==
    IF j > Cardinality(RegularKeys) THEN {}
    ELSE {Obj(InsertAt(ks, p, FEATURE_TOGGLE_KEY), InsertAt(l, p, Str(f))) :
              ks \in KeySeqs(j), l \in ListsOfSize(tab, j, n - 2),
              f \in Features, p \in 1..(j + 1)}
         \cup MarkedOfSize(tab, n, j + 1)

\* the documents of exactly n nodes, given those of fewer nodes
DocsOfSize(tab, n) ==
    IF n = 1 THEN Leaves \cup {Arr(<<>>), Obj(<<>>, <<>>)}
    ELSE ArrsOfSize(tab, n, 1) \cup ObjsOfSize(tab, n, 1) \cup MarkedOfSize(tab, n, 0)

RECURSIVE DocTable(_)

\* <<the documents of 1 node, ..., the documents of n nodes>>
DocTable(n) ==
    IF n = 0 THEN <<>>
    ELSE CHOOSE next \in {Append(tab, DocsOfSize(tab, n)) : tab \in {DocTable(n - 1)}} : TRUE

RECURSIVE DocsUpTo(_, _)

DocsUpTo(tab, n) == IF n = 0 THEN {} ELSE tab[n] \cup DocsUpTo(tab, n - 1)

\* every document of at most n nodes
Docs(n) == DocsUpTo(DocTable(n), n)

\* the documents of the worked scenarios (spec section 8, README usage)
ScenarioA ==
    Obj(<<"info", "paths">>,
        <<Obj(<<>>, <<>>),
          Obj(<<"/users">>,
              <<Obj(<<"post">>, <<Obj(<<FEATURE_TOGGLE_KEY>>, <<Str("f1")>>)>>)>>)>>)

ScenarioC ==
    Obj(<<"items">>,
        <<Arr(<<Obj(<<FEATURE_TOGGLE_KEY, "id">>, <<Str("f2"), Str("1")>>),
                Obj(<<"id">>, <<Str("2")>>)>>)>>)

ScenarioDocs == {ScenarioA, ScenarioC}

\* the document of the README's usage example, whose marker entry is
\* written 'x-toggle-feature'
ScenarioReadme ==
    Obj(<<"info", "paths">>,
        <<Obj(<<>>, <<>>),
          Obj(<<"/users">>,
              <<Obj(<<"post">>, <<Obj(<<"x-toggle-feature">>, <<Str("f1")>>)>>)>>)>>)

(***************************************************************************)
(* The provider.                                                           *)
(***************************************************************************)
\* the observer functions passed to onChange
Handlers == {"h1"}

\* the names isEnabled is asked about: the features and one unknown name
Names == Features \cup {"unknown"}

ClientIds == 1..MaxClients

\* the listeners init() registers on a new client: ready, error,
\* synchronized, registered, changed
InitListeners == 5

VARIABLES
    client,        \* this.client: NoClient (undefined) or the id of the client held
    started,       \* the number of clients startUnleash has created so far
    pending,       \* the clients whose init() call is still awaiting startUnleash
    alive,         \* the clients created and not destroyed
    flagState,     \* per client, the cached flag state: the set of enabled features
    logListeners,  \* per client, the number of listeners init() registered on it
    handlers,      \* per client, the observers registered through onChange, in order
    doc,           \* the caller's document, the argument of syncOpenApiSpec
    call           \* the latest call of the public interface and its outcome

vars == <<client, started, pending, alive, flagState, logListeners, handlers,
          doc, call>>

provider == <<client, started, pending, alive, flagState, logListeners, handlers>>

\* the outcome of a call: st is "ok" or the error thrown, b the boolean
\* returned, val the document returned, q the isEnabled queries it made (for
\* a 'changed' event: the observers it invoked), in order
Outcome(op, arg, st, b, val, q) ==
    [op |-> op, arg |-> arg, st |-> st, b |-> b, val |-> val, q |-> q]

NoCall == Outcome("none", "", "ok", FALSE, Undefined, <<>>)

\* the state after new UnleashToggleProvider(config)
Init ==
    /\ client = NoClient
    /\ started = 0
    /\ pending = {}
    /\ alive = {}
    /\ flagState = [c \in ClientIds |-> {}]
    /\ logListeners = [c \in ClientIds |-> 0]
    /\ handlers = [c \in ClientIds |-> <<>>]
    /\ doc \in ScenarioDocs
    /\ call = NoCall

\* the cached flag state isEnabled reads
heldFlags == IF client = NoClient THEN {} ELSE flagState[client]

\* init(bootstrap) without the check for a held client
InitCallUnguarded(bootstrap) ==
    /\ started < MaxClients
    /\ started' = started + 1
    /\ alive' = alive \cup {started + 1}
    /\ pending' = pending \cup {started + 1}
    /\ flagState' = [flagState EXCEPT ![started + 1] = bootstrap]
    /\ call' = Outcome("init", "", "pending", FALSE, Undefined, <<>>)
    /\ UNCHANGED <<client, logListeners, handlers, doc>>

\* init(bootstrap) up to the await: returns at once when a client is held,
\* otherwise startUnleash creates a client seeded with the bootstrap
InitCall(bootstrap) ==
    IF client # NoClient
    THEN /\ call' = Outcome("init", "", "ok", FALSE, Undefined, <<>>)
         /\ UNCHANGED <<provider, doc>>
    ELSE /\ started < MaxClients
         /\ started' = started + 1
         /\ alive' = alive \cup {started + 1}
         /\ pending' = pending \cup {started + 1}
         /\ flagState' = [flagState EXCEPT ![started + 1] = bootstrap]
         /\ call' = Outcome("init", "", "pending", FALSE, Undefined, <<>>)
         /\ UNCHANGED <<client, logListeners, handlers, doc>>

\* init() after the await: startUnleash resolved with client c
InitResolve(c) ==
    /\ c \in pending
    /\ pending' = pending \ {c}
    /\ client' = c
    /\ logListeners' = [logListeners EXCEPT ![c] = @ + InitListeners]
    /\ call' = Outcome("initResolved", "", "ok", FALSE, Undefined, <<>>)
    /\ UNCHANGED <<started, alive, flagState, handlers, doc>>

\* isEnabled(feature)
IsEnabledCall(feature) ==
    LET r == isEnabled(client, heldFlags, feature) IN
    /\ call' = Outcome("isEnabled", feature, r.st, r.val, Undefined, <<>>)
    /\ UNCHANGED <<provider, doc>>

\* onChange keeping the observers in a list of the provider's own, which
\* every client it holds from then on serves
OnChangeOnProvider(h) ==
    IF client = NoClient
    THEN /\ call' = Outcome("onChange", h, NotInitialized, FALSE, Undefined, <<>>)
         /\ UNCHANGED <<provider, doc>>
    ELSE /\ Len(handlers[client]) < MaxHandlers
         /\ handlers' = [c \in ClientIds |->
                            IF c >= client THEN Append(handlers[c], h) ELSE handlers[c]]
         /\ call' = Outcome("onChange", h, "ok", FALSE, Undefined, <<>>)
         /\ UNCHANGED <<client, started, pending, alive, flagState, logListeners, doc>>

\* onChange(eventHandler)
OnChange(h) ==
    IF client = NoClient
    THEN /\ call' = Outcome("onChange", h, NotInitialized, FALSE, Undefined, <<>>)
         /\ UNCHANGED <<provider, doc>>
    ELSE /\ Len(handlers[client]) < MaxHandlers
         /\ handlers' = [handlers EXCEPT ![client] = Append(@, h)]
         /\ call' = Outcome("onChange", h, "ok", FALSE, Undefined, <<>>)
         /\ UNCHANGED <<client, started, pending, alive, flagState, logListeners, doc>>

\* destroy() that stops the client and goes on holding it
DestroyKeepsClient ==
    IF client = NoClient
    THEN /\ call' = Outcome("destroy", "", "ok", FALSE, Undefined, <<>>)
         /\ UNCHANGED <<provider, doc>>
    ELSE /\ alive' = alive \ {client}
         /\ call' = Outcome("destroy", "", "ok", TRUE, Undefined, <<>>)
         /\ flagState' = [flagState EXCEPT ![client] = {}]
         /\ logListeners' = [logListeners EXCEPT ![client] = 0]
         /\ handlers' = [handlers EXCEPT ![client] = <<>>]
         /\ UNCHANGED <<client, started, pending, doc>>

\* destroy(): client.destroy() stops the client, which emits no event and
\* answers no query afterwards, so what it cached and held is dropped
Destroy ==
    IF client = NoClient
    THEN /\ call' = Outcome("destroy", "", "ok", FALSE, Undefined, <<>>)
         /\ UNCHANGED <<provider, doc>>
    ELSE /\ alive' = alive \ {client}
         /\ client' = NoClient
         /\ call' = Outcome("destroy", "", "ok", TRUE, Undefined, <<>>)
         /\ flagState' = [flagState EXCEPT ![client] = {}]
         /\ logListeners' = [logListeners EXCEPT ![client] = 0]
         /\ handlers' = [handlers EXCEPT ![client] = <<>>]
         /\ UNCHANGED <<started, pending, doc>>

\* a refresh of live client c replaces its cached flag state by fs and emits
\* 'changed': every listener registered through onChange calls its observer
Changed(c, fs) ==
    /\ c \in alive
    /\ flagState' = [flagState EXCEPT ![c] = fs]
    /\ call' = Outcome("changed", "", "ok", FALSE, Undefined, handlers[c])
    /\ UNCHANGED <<client, started, pending, alive, logListeners, handlers, doc>>

\* syncOpenApiSpec filtering in place: the entries removed are deleted from
\* the caller's document
SyncOpenApiSpecInPlace(spec) ==
    LET r == traverse(spec, client, heldFlags) IN
    /\ call' = Outcome("syncOpenApiSpec", "", r.st, FALSE, r.val, r.q)
    /\ doc' = IF r.st = "ok" THEN r.val ELSE doc
    /\ UNCHANGED provider

\* syncOpenApiSpec(spec)
SyncOpenApiSpec(spec) ==
    LET r == traverse(spec, client, heldFlags) IN
    /\ call' = Outcome("syncOpenApiSpec", "", r.st, FALSE, r.val, r.q)
    /\ UNCHANGED <<provider, doc>>

Init_ == \E b \in SUBSET Features : InitCall(b)

Resolve_ == \E c \in ClientIds : InitResolve(c)

IsEnabled_ == \E f \in Names : IsEnabledCall(f)

OnChange_ == \E h \in Handlers : OnChange(h)

Changed_ == \E c \in ClientIds, fs \in SUBSET Features : Changed(c, fs)

Sync_ == SyncOpenApiSpec(doc)

Next == Init_ \/ Resolve_ \/ IsEnabled_ \/ OnChange_ \/ Destroy \/ Changed_ \/ Sync_

Spec == Init /\ [][Next]_vars

(***************************************************************************)
(* The filter on every bounded document: the provider is Uninitialized or  *)
(* Ready after one init(bootstrap), and syncOpenApiSpec is called once.    *)
(***************************************************************************)
FilterInit ==
    /\ started \in {0, 1}
    /\ client = started
    /\ pending = {}
    /\ alive = 1..started
    /\ flagState \in {fsm \in [ClientIds -> SUBSET Features] :
                         \A c \in ClientIds : c > started => fsm[c] = {}}
    /\ logListeners = [c \in ClientIds |-> IF c <= started THEN InitListeners ELSE 0]
    /\ handlers = [c \in ClientIds |-> <<>>]
    /\ doc \in Docs(MaxNodes) \cup {ScenarioReadme}
    /\ call = NoCall

FilterSync == call.op = "none" /\ SyncOpenApiSpec(doc)

FilterNext == FilterSync

FilterSpec == FilterInit /\ [][FilterNext]_vars

(***************************************************************************)
(* Vocabulary of the properties.                                           *)
(***************************************************************************)
Ready == client # NoClient

Uninitialized == client = NoClient

\* the latest call was syncOpenApiSpec(doc)
Synced == call.op = "syncOpenApiSpec"

\* ... and it returned call.val
Returned == Synced /\ call.st = "ok"

IsContainer(n) == n.t \in {"seq", "map"}

Keys(n) == {n.ks[i] : i \in 1..Len(n.ks)}

\* the value of Mapping n under key k
Get(n, k) == n.vs[CHOOSE i \in 1..Len(n.ks) : n.ks[i] = k]

HasMarker(n) == n.t = "map" /\ FEATURE_TOGGLE_KEY \in Keys(n)

MarkerOf(n) == Get(n, FEATURE_TOGGLE_KEY).s

\* n is a Mapping whose own marker names a feature disabled under fs
Disabled(n, fs) == HasMarker(n) /\ MarkerOf(n) \notin fs

\* the children of n that are not Mappings with a disabled marker, in order
Survivors(n, fs) ==
    LET Stays(x) == ~Disabled(x, fs) IN SelectSeq(n.vs, Stays)

RECURSIVE Nodes(_)

\* n and all its descendants
Nodes(n) == {n} \cup UNION {Nodes(n.vs[i]) : i \in 1..Len(n.vs)}

\* the descendants of n
Descendants(n) == UNION {Nodes(n.vs[i]) : i \in 1..Len(n.vs)}

MarkerFree(n) == \A x \in Nodes(n) : ~HasMarker(x)

RECURSIVE Pairs(_, _, _)

\* the pairs <<input node, output node at its position>>: the root pair,
\* and the surviving children of a container paired in order with the
\* children of its output node
Pairs(in, out, fs) ==
    {<<in, out>>} \cup
    (IF IsContainer(in) /\ Len(out.vs) = Len(Survivors(in, fs))
     THEN UNION {Pairs(Survivors(in, fs)[j], out.vs[j], fs) :
                 j \in 1..Len(out.vs)}
     ELSE {})

\* the pairs of the latest call
CallPairs == Pairs(doc, call.val, heldFlags)

(***************************************************************************)
(* C1: a Mapping entry (k, v) whose value v is a Mapping with a disabled   *)
(* marker leaves no key k in the output Mapping at that position, and the  *)
(* other entries of that Mapping (those not removed for their own marker)  *)
(* are still there.                                                        *)
(***************************************************************************)
C1_WholeEntryRemoved ==
    (Returned /\ Ready) =>
        \A p \in CallPairs :
            p[1].t = "map" =>
                \A i \in 1..Len(p[1].ks) :
                    p[1].ks[i] \in Keys(p[2]) <=> ~Disabled(p[1].vs[i], heldFlags)

\* a nested Mapping with one entry removed and one entry kept
C1_Witness ==
    /\ Returned /\ Ready
    /\ doc.t = "map"
    /\ \E x \in 1..Len(doc.vs) :
          LET w == doc.vs[x] IN
          /\ w.t = "map" /\ ~Disabled(w, heldFlags)
          /\ \E i, j \in 1..Len(w.vs) :
                /\ Disabled(w.vs[i], heldFlags)
                /\ w.ks[j] # FEATURE_TOGGLE_KEY
                /\ w.ks[i] \notin Keys(Get(call.val, doc.ks[x]))
                /\ w.ks[j] \in Keys(Get(call.val, doc.ks[x]))

(***************************************************************************)
(* C2: under a Mapping key whose value is a Sequence the output holds a    *)
(* Sequence of exactly the input elements that are not Mappings with a     *)
(* disabled marker, in order: unmarked elements and elements with an       *)
(* enabled marker are never dropped.  An element that is a container is    *)
(* compared up to its own filtering: it is a container carrying the same   *)
(* marker.                                                                 *)
(***************************************************************************)
SameElement(x, y) ==
    IF IsContainer(x)
    THEN /\ IsContainer(y)
         /\ HasMarker(x) => (HasMarker(y) /\ MarkerOf(y) = MarkerOf(x))
    ELSE y = x

C2_SequenceElementsKept ==
    (Returned /\ Ready) =>
        \A p \in CallPairs :
            p[1].t = "map" =>
                \A i \in 1..Len(p[1].ks) :
                    p[1].vs[i].t = "seq" =>
                        /\ p[1].ks[i] \in Keys(p[2])
                        /\ LET sv == Survivors(p[1].vs[i], heldFlags)
                               o == Get(p[2], p[1].ks[i])
                           IN /\ o.t = "seq"
                              /\ Len(o.vs) = Len(sv)
                              /\ \A j \in 1..Len(sv) : SameElement(sv[j], o.vs[j])

\* a Sequence under a key with one element dropped and one element kept
C2_Witness ==
    /\ Returned /\ Ready
    /\ doc.t = "map"
    /\ \E i \in 1..Len(doc.vs) :
          LET v == doc.vs[i] IN
          /\ v.t = "seq"
          /\ \E a, b \in 1..Len(v.vs) :
                Disabled(v.vs[a], heldFlags) /\ ~Disabled(v.vs[b], heldFlags)
          /\ Len(Get(call.val, doc.ks[i]).vs) = Len(v.vs) - 1

(***************************************************************************)
(* C3: when every marker of the document is enabled, syncOpenApiSpec on a  *)
(* Ready provider returns a document structurally equal to its input.      *)
(***************************************************************************)
AllMarkersEnabled(n, fs) == \A x \in Nodes(n) : HasMarker(x) => MarkerOf(x) \in fs

C3_EnabledIsIdentity ==
    (Synced /\ Ready /\ AllMarkersEnabled(doc, heldFlags)) =>
        (call.st = "ok" /\ call.val = doc)

(***************************************************************************)
(* C4: while the provider is Uninitialized, isEnabled and onChange throw   *)
(* TogglesNotInitializedError, return nothing, register no handler and     *)
(* leave the provider as it was.                                           *)
(***************************************************************************)
C4_UninitializedThrows ==
    [][(Uninitialized /\ (IsEnabled_ \/ OnChange_)) =>
          /\ call'.st = NotInitialized
          /\ call'.b = FALSE
          /\ handlers' = handlers
          /\ client' = NoClient
          /\ UNCHANGED provider]_vars

\* onChange or isEnabled has thrown while an init() awaits the backend start
C4_Witness ==
    /\ call.op \in {"isEnabled", "onChange"}
    /\ call.st = NotInitialized
    /\ Uninitialized
    /\ pending # {}

(***************************************************************************)
(* C5: a null or undefined value anywhere in the document is found         *)
(* unchanged at the same position of the output, makes no isEnabled query, *)
(* and the call does not throw.                                            *)
(***************************************************************************)
IsNullish(n) == n.t \in {"null", "undefined"}

C5_NullPassesThrough ==
    (Synced /\ Ready /\ \E n \in Nodes(doc) : IsNullish(n)) =>
        /\ call.st = "ok"
        /\ \A p \in CallPairs : IsNullish(p[1]) => p[2] = p[1]
        /\ MarkerFree(doc) => call.q = <<>>

(***************************************************************************)
(* C6: a document without any marker key comes back structurally equal,    *)
(* whatever the flag state and also on an Uninitialized provider, without  *)
(* any isEnabled query and without error.                                  *)
(***************************************************************************)
C6_MarkerFreeIsIdentity ==
    (Synced /\ MarkerFree(doc)) =>
        (call.st = "ok" /\ call.val = doc /\ call.q = <<>>)

(***************************************************************************)
(* C7 as amended: below the root, the output holds no Mapping whose own    *)
(* marker is disabled, and it holds exactly one node for every input node  *)
(* that is not inside (or itself) such a Mapping: a disabled Mapping is    *)
(* gone with all its descendants.  The root document itself is returned    *)
(* also when it carries a disabled marker.                                 *)
(***************************************************************************)
RECURSIVE NodeCount(_)

NodeCount(n) ==
    LET RECURSIVE Sum(_)
        Sum(i) == IF i = 0 THEN 0 ELSE NodeCount(n.vs[i]) + Sum(i - 1)
    IN 1 + Sum(Len(n.vs))

RECURSIVE KeptCount(_, _)

\* the nodes of n outside every Mapping (below n) with a disabled marker
KeptCount(n, fs) ==
    LET sv == Survivors(n, fs)
        RECURSIVE Sum(_)
        Sum(i) == IF i = 0 THEN 0 ELSE KeptCount(sv[i], fs) + Sum(i - 1)
    IN 1 + Sum(Len(sv))

C7_DisabledGoneBelowRoot ==
    (Returned /\ Ready) =>
        /\ \A n \in Descendants(call.val) : ~Disabled(n, heldFlags)
        /\ NodeCount(call.val) = KeptCount(doc, heldFlags)

\* a disabled Mapping below the root, with a descendant whose own marker is
\* enabled, has been filtered out
C7_Witness ==
    /\ Returned /\ Ready
    /\ \E i \in 1..Len(doc.vs) :
          /\ Disabled(doc.vs[i], heldFlags)
          /\ \E d \in Descendants(doc.vs[i]) : HasMarker(d) /\ ~Disabled(d, heldFlags)
    /\ \A n \in Nodes(call.val) : ~HasMarker(n)

\* C7 as stated: no Mapping with a disabled marker anywhere in the output,
\* the root document included
C7_DisabledGoneEverywhere ==
    (Returned /\ Ready) => \A n \in Nodes(call.val) : ~Disabled(n, heldFlags)

(***************************************************************************)
(* C8: nothing is removed for being empty.  Every child of a container     *)
(* that is not a Mapping with a disabled marker has its node in the        *)
(* output; a container under a Mapping key stays under that key as a       *)
(* container of the same kind, empty when all its children were dropped    *)
(* or it was empty already.                                                *)
(***************************************************************************)
C8_EmptyContainersStay ==
    (Returned /\ Ready) =>
        \A p \in CallPairs :
            /\ IsContainer(p[1]) => Len(p[2].vs) = Len(Survivors(p[1], heldFlags))
            /\ p[1].t = "map" =>
                  \A i \in 1..Len(p[1].ks) :
                      LET v == p[1].vs[i] IN
                      (IsContainer(v) /\ ~Disabled(v, heldFlags)) =>
                          /\ p[1].ks[i] \in Keys(p[2])
                          /\ Get(p[2], p[1].ks[i]).t = v.t
                          /\ Survivors(v, heldFlags) = <<>> =>
                                Get(p[2], p[1].ks[i]).vs = <<>>

\* a container under a key has lost all its children and is still there
C8_Witness ==
    /\ Returned /\ Ready
    /\ doc.t = "map"
    /\ \E i \in 1..Len(doc.vs) :
          LET v == doc.vs[i] IN
          /\ IsContainer(v) /\ ~Disabled(v, heldFlags)
          /\ v.vs # <<>>
          /\ Survivors(v, heldFlags) = <<>>
          /\ doc.ks[i] \in Keys(call.val)
          /\ Get(call.val, doc.ks[i]).t = v.t
          /\ Get(call.val, doc.ks[i]).vs = <<>>

(***************************************************************************)
(* C9: on an Uninitialized provider, as soon as the traversal reaches a    *)
(* marker (it calls isEnabled) syncOpenApiSpec throws                      *)
(* TogglesNotInitializedError and returns no document.  In a document      *)
(* without null every marker Mapping below the root is reached.            *)
(***************************************************************************)
C9_NotInitializedPropagates ==
    (Synced /\ Uninitialized) =>
        /\ call.q # <<>> => (call.st = NotInitialized /\ call.val = Undefined)
        /\ ((\A n \in Nodes(doc) : n.t # "null") /\
            (\E n \in Descendants(doc) : HasMarker(n))) =>
               (call.q # <<>> /\ call.st = NotInitialized)

\* the error has left syncOpenApiSpec
C9_Witness ==
    /\ Synced /\ Uninitialized
    /\ call.q # <<>>
    /\ call.st = NotInitialized
    /\ call.val = Undefined

(***************************************************************************)
(* C10: init() on a Ready provider changes nothing: no client is started,  *)
(* no listener is registered, and the client held, the live clients and    *)
(* the cached flag states are the same as before.                          *)
(***************************************************************************)
C10_InitWhileReadyIsNoOp ==
    [][(Ready /\ Init_) => UNCHANGED provider]_vars

\* init() has returned at once on a Ready provider
C10_Witness ==
    /\ Ready
    /\ call.op = "init"
    /\ call.st = "ok"

(***************************************************************************)
(* C11: destroy() leaves the provider Uninitialized, so that isEnabled and *)
(* onChange throw TogglesNotInitializedError right after it.  On a Ready   *)
(* provider it calls destroy of the client held, once, and of no other     *)
(* client; on an Uninitialized provider it calls no client, changes        *)
(* nothing and throws nothing.                                             *)
(***************************************************************************)
C11_DestroyLeavesUninitialized ==
    [][Destroy =>
          /\ client' = NoClient
          /\ call'.st = "ok"
          /\ \A f \in Names : isEnabled(client', heldFlags', f).st = NotInitialized
          /\ IF Ready
             THEN /\ client \in alive
                  /\ alive' = alive \ {client}
                  /\ call'.b
             ELSE /\ UNCHANGED provider
                  /\ ~call'.b]_vars

\* destroy() has stopped the client of a Ready provider
C11_Witness ==
    /\ call.op = "destroy"
    /\ call.b
    /\ Uninitialized
    /\ started > 0
    /\ Cardinality(alive) < started

(***************************************************************************)
(* C12: an init(bootstrap) called on an Uninitialized provider with no     *)
(* other init() in flight (as after init(); destroy()) starts a client     *)
(* that has never been used: it is seeded with this bootstrap and has no   *)
(* listener and no observer.  When that init() resolves the provider is    *)
(* Ready holding this client, isEnabled answers from this client's flag    *)
(* state, and the client carries the listeners of this init() only and no  *)
(* observer registered earlier, so its 'changed' events invoke none.       *)
(***************************************************************************)
C12_ReinitStartsClean ==
    [][/\ \A b \in SUBSET Features :
              (Uninitialized /\ pending = {} /\ InitCall(b)) =>
                  /\ started' = started + 1
                  /\ started' \notin alive
                  /\ alive' = alive \cup {started'}
                  /\ flagState'[started'] = b
                  /\ handlers'[started'] = <<>>
                  /\ logListeners'[started'] = 0
       /\ \A c \in ClientIds :
              (Uninitialized /\ c = started /\ pending = {c} /\ InitResolve(c)) =>
                  /\ client' = c
                  /\ c \in alive'
                  /\ handlers'[c] = <<>>
                  /\ logListeners'[c] = InitListeners
                  /\ \A f \in Names :
                        isEnabled(client', heldFlags', f) =
                            [st |-> "ok", val |-> f \in flagState[c]]
       /\ \A c \in ClientIds, fs \in SUBSET Features :
              (call.op = "initResolved" /\ c = client /\ Changed(c, fs)) =>
                  call'.q = <<>>]_vars

\* after init(); destroy(); init(): the second client is held, the first is
\* gone, and a refresh of the second has invoked no observer
C12_Witness ==
    /\ started = 2
    /\ client = 2
    /\ alive = {2}
    /\ pending = {}
    /\ call.op = "changed"
    /\ call.q = <<>>

(***************************************************************************)
(* C13: on a provider that has never been destroyed (every client it       *)
(* started is alive), every 'changed' event of the client held invokes     *)
(* every observer that onChange has registered so far: the observers of    *)
(* all its clients, each of which was the client held when onChange        *)
(* returned.                                                               *)
(***************************************************************************)
Invoked(q) == {q[j] : j \in 1..Len(q)}

C13_ObserverInvokedOnEveryChange ==
    [][\A c \in ClientIds, fs \in SUBSET Features :
          (Changed(c, fs) /\ c = client /\ alive = 1..started) =>
              \A c2 \in alive : Invoked(handlers[c2]) \subseteq Invoked(call'.q)]_vars

(***************************************************************************)
(* C14: syncOpenApiSpec leaves the caller's document as it was, whether it *)
(* returns or throws, and every Mapping and Sequence of the output is a    *)
(* newly built object: the only nodes of the input that the output holds   *)
(* as they are, are scalars, null and undefined.                           *)
(***************************************************************************)
SharedWithInput(spec) == traverse(spec, client, heldFlags).sh

C14_InputUntouched ==
    [][Sync_ =>
          /\ doc' = doc
          /\ UNCHANGED provider
          /\ \A n \in SharedWithInput(doc) : ~IsContainer(n)]_vars

\* a call has returned a document that differs from its input and holds
\* both containers and scalars taken from it
C14_Witness ==
    /\ Returned /\ Ready
    /\ call.val # doc
    /\ \E n \in Descendants(call.val) : IsContainer(n)
    /\ \E n \in SharedWithInput(doc) : n.t = "scalar"

(***************************************************************************)
(* C15: at every container of the input that is visited, the children in   *)
(* the output are the surviving children of the input in their input       *)
(* order: the keys of an output Mapping are the surviving keys of the      *)
(* input Mapping in the same order, and the j-th child of the output is    *)
(* the j-th surviving child of the input (a container child is compared    *)
(* up to its own filtering).                                               *)
(***************************************************************************)
RECURSIVE SurvivingKeys(_, _, _)

\* the keys i..Len(n.ks) of Mapping n whose value is not a Mapping with a
\* disabled marker, in order
SurvivingKeys(n, fs, i) ==
    IF i > Len(n.ks) THEN <<>>
    ELSE (IF Disabled(n.vs[i], fs) THEN <<>> ELSE <<n.ks[i]>>)
         \o SurvivingKeys(n, fs, i + 1)

C15_OrderPreserved ==
    (Returned /\ Ready) =>
        \A p \in CallPairs :
            IsContainer(p[1]) =>
                LET sv == Survivors(p[1], heldFlags) IN
                /\ Len(p[2].vs) = Len(sv)
                /\ \A j \in 1..Len(sv) : SameElement(sv[j], p[2].vs[j])
                /\ p[1].t = "map" => p[2].ks = SurvivingKeys(p[1], heldFlags, 1)

\* a Mapping has lost an entry and kept two that differ
C15_Witness ==
    /\ Returned /\ Ready
    /\ doc.t = "map"
    /\ Len(call.val.ks) >= 2
    /\ Len(doc.ks) > Len(call.val.ks)
    /\ call.val.vs[1] # call.val.vs[2]

(***************************************************************************)
(* C16: when the call has been made under flag state f and x is a feature  *)
(* enabled in f, the document syncOpenApiSpec returns under f without x    *)
(* is found inside the document returned under f: the call under f has     *)
(* returned one, every node of the smaller output is a node of the larger  *)
(* one under the same key (for an element of a Sequence: at a position     *)
(* that keeps the order of the elements), and nothing is added or          *)
(* reordered.                                                              *)
(***************************************************************************)
RECURSIVE Embeds(_, _)
RECURSIVE EmbedsFrom(_, _, _, _)
RECURSIVE EmbedsKeyedFrom(_, _, _, _)

\* the elements i.. of xs are found, in order, among the elements j.. of ys
EmbedsFrom(xs, i, ys, j) ==
    IF i > Len(xs) THEN TRUE
    ELSE IF j > Len(ys) THEN FALSE
    ELSE \/ Embeds(xs[i], ys[j]) /\ EmbedsFrom(xs, i + 1, ys, j + 1)
         \/ EmbedsFrom(xs, i, ys, j + 1)

\* the entries i.. of Mapping x are found, in order and under their own
\* keys, among the entries j.. of Mapping y
EmbedsKeyedFrom(x, i, y, j) ==
    IF i > Len(x.ks) THEN TRUE
    ELSE IF j > Len(y.ks) THEN FALSE
    ELSE IF x.ks[i] = y.ks[j]
    THEN Embeds(x.vs[i], y.vs[j]) /\ EmbedsKeyedFrom(x, i + 1, y, j + 1)
    ELSE EmbedsKeyedFrom(x, i, y, j + 1)

\* document x is document y with some nodes removed
Embeds(x, y) ==
    IF ~IsContainer(x) THEN y = x
    ELSE /\ y.t = x.t
         /\ IF x.t = "map" THEN EmbedsKeyedFrom(x, 1, y, 1)
                           ELSE EmbedsFrom(x.vs, 1, y.vs, 1)

C16_DisablingOnlyRemoves ==
    (Synced /\ Ready) =>
        \A x \in heldFlags :
            LET lo == traverse(doc, client, heldFlags \ {x}) IN
            lo.st = "ok" => (call.st = "ok" /\ Embeds(lo.val, call.val))

(***************************************************************************)
(* C17: for the document of the README's usage example, with its feature   *)
(* disabled on a Ready provider, syncOpenApiSpec returns                   *)
(* {info: {}, paths: {'/users': {}}}: the post object is removed.          *)
(***************************************************************************)
C17_ReadmeExampleFiltered ==
    (Synced /\ Ready /\ doc = ScenarioReadme /\ "f1" \notin heldFlags) =>
        /\ call.st = "ok"
        /\ call.val = Obj(<<"info", "paths">>,
                          <<Obj(<<>>, <<>>), Obj(<<"/users">>, <<Obj(<<>>, <<>>)>>)>>)

(***************************************************************************)
(* C18: at any time at most one client that the provider has started is    *)
(* alive, and it is the client the provider holds.  A client whose init()  *)
(* is still awaiting startUnleash is not counted.                          *)
(***************************************************************************)
C18_AtMostOneLiveClient ==
    LET live == alive \ pending IN
    /\ Cardinality(live) <= 1
    /\ \A c \in live : c = client

(***************************************************************************)
(* C19: once destroy() has returned, and as long as no call has followed   *)
(* it, the provider stays Uninitialized: a step that is not a call of      *)
(* init(), such as the resolution of an init() that was called before the  *)
(* destroy(), does not make it Ready.                                      *)
(***************************************************************************)
C19_StaysUninitializedAfterDestroy ==
    [][(call.op = "destroy" /\ ~Init_) => client' = NoClient]_vars

(***************************************************************************)
(* C20: a 'changed' event of the client held invokes every observer        *)
(* function at most once.                                                  *)
(***************************************************************************)
Invocations(q, h) == Cardinality({j \in 1..Len(q) : q[j] = h})

C20_ObserverOncePerRefresh ==
    [][\A c \in ClientIds, fs \in SUBSET Features :
          (Changed(c, fs) /\ c = client) =>
              \A h \in Handlers : Invocations(call'.q, h) <= 1]_vars

====
